---------------------------- MODULE Spec2Model ----------------------------
(***************************************************************************)
(* A model of the rust-8 CHIP-8 interpreter: the Cpu state (cpu.rs), the   *)
(* display buffer (display.rs), the keyboard (keyboard.rs), the decoder    *)
(* and the per-opcode executors (instr.rs), and the tick loop (Cpu::tick). *)
(*                                                                         *)
(* The inputs of the program are the ROM image, the events the host queue  *)
(* delivers on each tick, the random bytes of RND, and the build profile   *)
(* (overflow checks on or off).  Init draws the first three from bounded   *)
(* families; a Rust panic ends the process and is recorded in status.      *)
(***************************************************************************)
EXTENDS Integers, Sequences, FiniteSets, TLC

VARIABLES
    cpu,        \* the Cpu struct, with its Display and Keyboard (fields below)
    rom,        \* the bytes of the ROM file Cpu::new was given
    tape,       \* the event batches the host queue will deliver, one per tick
    calls,      \* history: the return addresses of the CALLs still pending
    saved,      \* history: the registers, I and memory at the last LD [I],Vx
    events,     \* history: the events the most recent tick drained
    quiet,      \* history: no debug, step or quit event has been drained yet
    last,       \* history: what the most recent tick fetched
    pre,        \* history: cpu before the most recent tick
    last2,      \* history: last, one tick earlier
    pre2,       \* history: pre, one tick earlier
    twin,       \* a second Cpu built from the same ROM file (ticked in TwinSpec)
    draws       \* history: the random bytes cpu and twin drew on the last tick,
                \* and whether the two drew the same byte on every tick so far

(* The fields of cpu:                                                      *)
(*   pixels   Display.pixels: [[u8; 64]; 32], indexed pixels[y][x]         *)
(*   keys     Keyboard.keys: [bool; 16]                                    *)
(*   running, paused, debug   the scheduler flags                          *)
(*   r_vx [u8; 16], r_i u16, r_dt u8, r_st u8, r_pc u16, r_sp u8           *)
(*   stack [u16; 16], mem [u8; 4096]                                       *)
(*   status   "ok", or the panic that ended the process                    *)
(*   build    "debug" (overflow checks) or "release" (wrapping arithmetic) *)

vars ==
    <<cpu, rom, tape, calls, saved, events, quiet, last, pre, last2, pre2,
      twin, draws>>

---------------------------------------------------------------------------
(* Program constants *)

DISPLAY_WIDTH == 64
DISPLAY_HEIGHT == 32
MEM_SIZE == 4096
PROGRAM_START == 512
STACK_SIZE == 16
NUM_REGS == 16
NUM_KEYS == 16
U8 == 256
U16 == 65536

---------------------------------------------------------------------------
(* Bit arithmetic on unsigned integers *)

RECURSIVE BitAnd(_, _)
BitAnd(a, b) ==
    IF a = 0 \/ b = 0 THEN 0
    ELSE ((a % 2) * (b % 2)) + 2 * BitAnd(a \div 2, b \div 2)

RECURSIVE BitXor(_, _)
BitXor(a, b) ==
    IF a = 0 THEN b
    ELSE IF b = 0 THEN a
    ELSE ((a + b) % 2) + 2 * BitXor(a \div 2, b \div 2)

RECURSIVE Pow2(_)
Pow2(k) == IF k = 0 THEN 1 ELSE 2 * Pow2(k - 1)

(* F applied to the value of e, with e evaluated once and first: the     *)
(* sequencing of one statement after another                              *)
With(e, F(_)) == CHOOSE r \in {F(v) : v \in {e}} : TRUE

---------------------------------------------------------------------------
(* Operand fields, as each struct's parse() extracts them *)

FieldX(instr) == BitAnd(instr, 3840) \div 256      \* (instr & 0x0f00) >> 8
FieldY(instr) == BitAnd(instr, 240) \div 16        \* (instr & 0x00f0) >> 4
FieldN(instr) == BitAnd(instr, 15)                 \* instr & 0x000f
FieldByte(instr) == BitAnd(instr, 255)             \* instr & 0x00ff
FieldAddr(instr) == BitAnd(instr, 4095)            \* instr & 0x0fff

(* instr::parse: the struct the word is decoded as, or the panic *)
Unsupported == "unsupported instruction"

ParseKind0(raw) ==
    CASE raw = 224 -> "Cls"
      [] raw = 238 -> "Ret"
      [] OTHER -> Unsupported

ParseKind8(raw) ==
    LET lo == BitAnd(raw, 15) IN
    CASE lo = 0 -> "LdReg"
      [] lo = 2 -> "And"
      [] lo = 3 -> "Xor"
      [] lo = 5 -> "Sub"
      [] lo = 6 -> "Shr"
      [] OTHER -> Unsupported

ParseKindE(raw) ==
    LET lo == BitAnd(raw, 255) IN
    CASE lo = 158 -> "SkpVx"
      [] lo = 161 -> "SknpVx"
      [] OTHER -> Unsupported

ParseKindF(raw) ==
    LET lo == BitAnd(raw, 255) IN
    CASE lo = 7 -> "LdVxDt"
      [] lo = 10 -> "LdVxK"
      [] lo = 21 -> "LdDt"
      [] lo = 30 -> "AddI"
      [] lo = 41 -> "LdSprite"
      [] lo = 51 -> "LdBCD"
      [] lo = 85 -> "SaveRegs"
      [] lo = 101 -> "RestoreRegs"
      [] OTHER -> Unsupported

ParseKind5(raw) == "SeV"

Parse(raw) ==
    LET hi == BitAnd(raw, 61440) \div 4096 IN       \* raw & 0xf000
    CASE hi = 0 -> ParseKind0(raw)
      [] hi = 1 -> "Jp"
      [] hi = 2 -> "Call"
      [] hi = 3 -> "SeB"
      [] hi = 4 -> "Sne"
      [] hi = 5 -> ParseKind5(raw)
      [] hi = 6 -> "Ld"
      [] hi = 7 -> "Add"
      [] hi = 8 -> ParseKind8(raw)
      [] hi = 10 -> "LdI"
      [] hi = 12 -> "Rnd"
      [] hi = 13 -> "Drw"
      [] hi = 14 -> ParseKindE(raw)
      [] hi = 15 -> ParseKindF(raw)
      [] OTHER -> Unsupported

---------------------------------------------------------------------------
(* Panics, and the build-dependent integer overflow *)

IndexPanic == "index out of bounds"
AddOverflow == "attempt to add with overflow"
SubOverflow == "attempt to subtract with overflow"

Panic(s, msg) == [s EXCEPT !.status = msg]
Ok(s) == s.status = "ok"

(* An integer add or subtract of width w: a panic with overflow checks on, *)
(* the wrapped value without them.                                         *)
Overflows(v, w) == v < 0 \/ v >= w
Wrap(v, w) == v % w

(* cpu.rs accessors and mutators *)
set_pc(s, addr) == [s EXCEPT !.r_pc = addr]

inc_pc(s) ==
    LET v == s.r_pc + 2 IN
    IF Overflows(v, U16) /\ s.build = "debug" THEN Panic(s, AddOverflow)
    ELSE set_pc(s, Wrap(v, U16))

dec_pc(s) ==
    LET v == s.r_pc - 2 IN
    IF Overflows(v, U16) /\ s.build = "debug" THEN Panic(s, SubOverflow)
    ELSE set_pc(s, Wrap(v, U16))

push_stack(s, value) ==
    LET v == s.r_sp + 1 IN
    IF Overflows(v, U8) /\ s.build = "debug" THEN Panic(s, AddOverflow)
    ELSE LET s1 == [s EXCEPT !.r_sp = Wrap(v, U8)] IN
         IF s1.r_sp >= STACK_SIZE THEN Panic(s1, IndexPanic)
         ELSE [s1 EXCEPT !.stack[s1.r_sp] = value]

(* pop_stack: the state after the pop; the value it returns is pop_value *)
pop_value(s) == s.stack[s.r_sp]

pop_stack(s) ==
    IF s.r_sp >= STACK_SIZE THEN Panic(s, IndexPanic)
    ELSE LET v == s.r_sp - 1 IN
         IF Overflows(v, U8) /\ s.build = "debug" THEN Panic(s, SubOverflow)
         ELSE [s EXCEPT !.r_sp = Wrap(v, U8)]

set_mem(s, addr, value) ==
    IF addr >= MEM_SIZE THEN Panic(s, IndexPanic)
    ELSE [s EXCEPT !.mem[addr] = value]

put_mem(s, addr, value) ==
    IF addr >= MEM_SIZE THEN Panic(s, IndexPanic)
    ELSE [s EXCEPT !.mem[addr] = value]

(* read_mem: whether the slice addr..addr+n is in range, and its bytes *)
read_mem_ok(s, addr, n) == addr + n <= MEM_SIZE
read_mem(s, addr, n) == [k \in 1..n |-> s.mem[addr + k - 1]]

get_vx(s, reg) == s.r_vx[reg]
set_vx(s, reg, value) == [s EXCEPT !.r_vx[reg] = value]
get_i(s) == s.r_i
set_i(s, value) == [s EXCEPT !.r_i = value]
get_pc(s) == s.r_pc

(* A faulty dec_dt, for comparison: wrapping_sub instead of checked_sub *)
dec_dt_wrapping(s) == [s EXCEPT !.r_dt = (s.r_dt - 1) % U8]

dec_dt(s) ==
    [s EXCEPT !.r_dt = IF s.r_dt - 1 < 0 THEN 0 ELSE s.r_dt - 1]

(* Accessors instr.rs calls that cpu.rs does not define in this snapshot *)
get_dt(s) == s.r_dt
set_dt(s, value) == [s EXCEPT !.r_dt = value]

(* read_instr: the big-endian word at PC, then inc_pc *)
read_instr_ok(s) == s.r_pc + 1 < MEM_SIZE
(* A faulty fetch, for comparison: the word is read from the ROM file *)
read_instr_value_from_rom(s) ==
    LET i == s.r_pc - PROGRAM_START IN
    IF i >= 0 /\ i + 2 <= Len(rom) THEN rom[i + 1] * 256 + rom[i + 2]
    ELSE s.mem[s.r_pc] * 256 + s.mem[s.r_pc + 1]

read_instr_value(s) == s.mem[s.r_pc] * 256 + s.mem[s.r_pc + 1]
read_instr(s) ==
    IF ~read_instr_ok(s) THEN Panic(s, IndexPanic) ELSE inc_pc(s)

---------------------------------------------------------------------------
(* keyboard.rs *)

key_to_index(key) ==
    CASE key = "Num1" -> 1  [] key = "Num2" -> 2  [] key = "Num3" -> 3
      [] key = "Num4" -> 12 [] key = "Q" -> 4     [] key = "W" -> 5
      [] key = "E" -> 6     [] key = "R" -> 13    [] key = "A" -> 7
      [] key = "S" -> 8     [] key = "D" -> 9     [] key = "F" -> 14
      [] key = "Z" -> 10    [] key = "X" -> 0     [] key = "C" -> 11
      [] key = "V" -> 15    [] OTHER -> 99

press(s, key, state) ==
    LET index == key_to_index(key) IN
    IF index <= 15 THEN [s EXCEPT !.keys[index] = state] ELSE s

pressed_ok(s, key) == key < NUM_KEYS
pressed(s, key) == s.keys[key]

---------------------------------------------------------------------------
(* display.rs *)

get_pixel(s, x, y) == s.pixels[y][x]

(* Display::draw: the pixels list[lo..hi] are written in order (the range *)
(* is halved rather than walked, to keep the evaluation shallow)          *)
RECURSIVE draw_from(_, _, _, _)
draw_from(px, list, lo, hi) ==
    IF lo > hi THEN px
    ELSE IF lo = hi
    THEN With(list[lo], LAMBDA e : [px EXCEPT ![e.y][e.x] = e.value])
    ELSE With(draw_from(px, list, lo, (lo + hi) \div 2),
              LAMBDA p : draw_from(p, list, (lo + hi) \div 2 + 1, hi))

(* A faulty draw, for comparison: only the lit pixels are written *)
draw_lit_only(s, list) ==
    [s EXCEPT !.pixels =
        draw_from(s.pixels,
                  [k \in 1..Len(list) |->
                      IF list[k].value = 1 THEN list[k]
                      ELSE [list[k] EXCEPT
                              !.value = get_pixel(s, list[k].x, list[k].y)]],
                  1, Len(list))]

draw(s, list) == [s EXCEPT !.pixels = draw_from(s.pixels, list, 1, Len(list))]

(* Display::clear is called by Cls but not defined in this snapshot *)
clear(s) ==
    [s EXCEPT !.pixels = [y \in 0..(DISPLAY_HEIGHT - 1) |->
                            [x \in 0..(DISPLAY_WIDTH - 1) |-> 0]]]

---------------------------------------------------------------------------
(* instr.rs: one execute per struct; raw is the word parse() stored *)

Cls_execute(s, raw) == clear(s)

Ret_execute(s, raw) ==
    LET s1 == pop_stack(s) IN
    IF Ok(s1) THEN set_pc(s1, pop_value(s)) ELSE s1

Jp_execute(s, raw) == set_pc(s, FieldAddr(raw))

Call_execute(s, raw) ==
    LET s1 == push_stack(s, get_pc(s)) IN
    IF Ok(s1) THEN set_pc(s1, FieldAddr(raw)) ELSE s1

SeB_execute(s, raw) ==
    IF get_vx(s, FieldX(raw)) = FieldByte(raw) THEN inc_pc(s) ELSE s

(* A faulty Sne, for comparison: it skips when the two are equal *)
Sne_execute_on_equal(s, raw) ==
    IF get_vx(s, FieldX(raw)) = FieldByte(raw) THEN inc_pc(s) ELSE s

Sne_execute(s, raw) ==
    IF get_vx(s, FieldX(raw)) # FieldByte(raw) THEN inc_pc(s) ELSE s

SeV_execute(s, raw) ==
    IF get_vx(s, FieldX(raw)) = get_vx(s, FieldY(raw)) THEN inc_pc(s) ELSE s

Ld_execute(s, raw) == set_vx(s, FieldX(raw), FieldByte(raw))

Add_execute(s, raw) ==
    set_vx(s, FieldX(raw), (get_vx(s, FieldX(raw)) + FieldByte(raw)) % U8)

LdReg_execute(s, raw) == set_vx(s, FieldX(raw), get_vx(s, FieldY(raw)))

And_execute(s, raw) ==
    set_vx(s, FieldX(raw),
           BitAnd(get_vx(s, FieldX(raw)), get_vx(s, FieldY(raw))))

Xor_execute(s, raw) ==
    set_vx(s, FieldX(raw),
           BitXor(get_vx(s, FieldX(raw)), get_vx(s, FieldY(raw))))

(* Sub: the flag is written first, and the operands are read again after it *)
Sub_execute(s, raw) ==
    LET x == FieldX(raw)
        y == FieldY(raw)
        vx == get_vx(s, x)
        vy == get_vx(s, y)
        s1 == IF vx > vy THEN set_vx(s, 15, 1) ELSE set_vx(s, 15, 0)
        new_value == (get_vx(s1, x) - get_vx(s1, y)) % U8
    IN set_vx(s1, x, new_value)

(* A faulty Shr, for comparison: the flag is taken from the shifted value *)
Shr_execute_flag_after(s, raw) ==
    LET x == FieldX(raw)
        s1 == set_vx(s, x, get_vx(s, x) \div 2)
    IN set_vx(s1, 15, BitAnd(get_vx(s1, x), 1))

Shr_execute(s, raw) ==
    LET x == FieldX(raw)
        vx == get_vx(s, x)
        s1 == IF BitAnd(vx, 1) = 1 THEN set_vx(s, 15, 1) ELSE set_vx(s, 15, 0)
    IN set_vx(s1, x, vx \div 2)

LdI_execute(s, raw) == set_i(s, FieldAddr(raw))

(* For comparison: the random byte stored whole, without the AND *)
Rnd_execute_unmasked(s, raw, rnd_byte) ==
    set_vx(s, FieldX(raw), rnd_byte)

Rnd_execute(s, raw, rnd_byte) ==
    set_vx(s, FieldX(raw), BitAnd(rnd_byte, FieldByte(raw)))

(* A faulty Drw pixel, for comparison: the sprite byte is read from its *)
(* least significant bit                                                *)
Drw_pixel_lsb_first(s, x, y, raw_bytes, k) ==
    LET iter_y == (k - 1) \div 8
        iter_x == (k - 1) % 8
        dy == (y + iter_y) % DISPLAY_HEIGHT
        dx == (x + iter_x) % DISPLAY_WIDTH
        px == BitAnd(raw_bytes[iter_y + 1] \div Pow2(iter_x), 1)
        old_px == get_pixel(s, dx, dy)
        new_px == BitXor(old_px, px)
    IN [x |-> dx, y |-> dy, value |-> new_px,
        hit |-> (old_px = 1 /\ new_px = 0)]

(* A faulty Drw pixel, for comparison: the sprite bit is added to the cell *)
Drw_pixel_adding(s, x, y, raw_bytes, k) ==
    LET iter_y == (k - 1) \div 8
        iter_x == (k - 1) % 8
        dy == (y + iter_y) % DISPLAY_HEIGHT
        dx == (x + iter_x) % DISPLAY_WIDTH
        px == BitAnd(raw_bytes[iter_y + 1] \div Pow2(7 - iter_x), 1)
        old_px == get_pixel(s, dx, dy)
        new_px == old_px + px
    IN [x |-> dx, y |-> dy, value |-> new_px,
        hit |-> (old_px = 1 /\ new_px = 0)]

(* Drw: every new pixel is computed from the display as it was before the *)
(* draw; VF is written, then the list is handed to Display::draw.         *)
Drw_pixel(s, x, y, raw_bytes, k) ==
    LET iter_y == (k - 1) \div 8
        iter_x == (k - 1) % 8
        dy == (y + iter_y) % DISPLAY_HEIGHT
        dx == (x + iter_x) % DISPLAY_WIDTH
        px == BitAnd(raw_bytes[iter_y + 1] \div Pow2(7 - iter_x), 1)
        old_px == get_pixel(s, dx, dy)
        new_px == BitXor(old_px, px)
    IN [x |-> dx, y |-> dy, value |-> new_px,
        hit |-> (old_px = 1 /\ new_px = 0)]

Drw_pixels(s, x, y, raw_bytes) ==
    [k \in 1..(8 * Len(raw_bytes)) |-> Drw_pixel(s, x, y, raw_bytes, k)]

Drw_vf(list) == IF \E k \in 1..Len(list) : list[k].hit THEN 1 ELSE 0

Drw_execute(s, raw) ==
    LET x == get_vx(s, FieldX(raw))
        y == get_vx(s, FieldY(raw))
        i == get_i(s)
        n == FieldN(raw)
    IN IF ~read_mem_ok(s, i, n) THEN Panic(s, IndexPanic)
       ELSE With(Drw_pixels(s, x, y, read_mem(s, i, n)), LAMBDA list :
                 draw(set_vx(s, 15, Drw_vf(list)), list))

SkpVx_execute(s, raw) ==
    LET value == get_vx(s, FieldX(raw)) IN
    IF ~pressed_ok(s, value) THEN Panic(s, IndexPanic)
    ELSE IF pressed(s, value) THEN inc_pc(s) ELSE s

SknpVx_execute(s, raw) ==
    LET value == get_vx(s, FieldX(raw)) IN
    IF ~pressed_ok(s, value) THEN Panic(s, IndexPanic)
    ELSE IF ~pressed(s, value) THEN inc_pc(s) ELSE s

LdVxDt_execute(s, raw) == set_vx(s, FieldX(raw), get_dt(s))

(* A faulty wait_for_input, for comparison: only key 0 ends the wait *)
wait_for_input_key0_only(s, reg) ==
    IF pressed(s, 0) THEN [s EXCEPT !.r_vx[reg] = 0] ELSE dec_pc(s)

(* A faulty wait_for_input, for comparison: the last pressed key wins and *)
(* the PC is left where the fetch put it                                  *)
wait_for_input_no_rewind(s, reg) ==
    IF \E i \in 0..15 : pressed(s, i)
    THEN LET i == CHOOSE j \in 0..15 :
                    pressed(s, j) /\ \A k \in (j + 1)..15 : ~pressed(s, k)
         IN [s EXCEPT !.r_vx[reg] = i]
    ELSE s

wait_for_input(s, reg) ==
    IF \E i \in 0..15 : pressed(s, i)
    THEN LET i == CHOOSE j \in 0..15 :
                    pressed(s, j) /\ \A k \in 0..(j - 1) : ~pressed(s, k)
         IN [s EXCEPT !.r_vx[reg] = i]
    ELSE dec_pc(s)

LdVxK_execute(s, raw) == wait_for_input(s, FieldX(raw))

LdDt_execute(s, raw) == set_dt(s, get_vx(s, FieldX(raw)))

AddI_execute(s, raw) ==
    LET result == get_vx(s, FieldX(raw)) + get_i(s) IN
    IF Overflows(result, U16) /\ s.build = "debug" THEN Panic(s, AddOverflow)
    ELSE set_i(s, Wrap(result, U16))

LdSprite_execute(s, raw) == set_i(s, get_vx(s, FieldX(raw)) * 5)

(* A faulty LdBCD, for comparison: the digits are stored ones first *)
LdBCD_execute_ones_first(s, raw) ==
    LET value == get_vx(s, FieldX(raw))
        mem_idx == get_i(s)
        s1 == set_mem(s, mem_idx + 2, ((value \div 10) \div 10) % 10)
        s2 == IF Ok(s1) THEN set_mem(s1, mem_idx + 1, (value \div 10) % 10)
              ELSE s1
    IN IF Ok(s2) THEN set_mem(s2, mem_idx, value % 10)
       ELSE s2

LdBCD_execute(s, raw) ==
    LET value == get_vx(s, FieldX(raw))
        mem_idx == get_i(s)
        s1 == set_mem(s, mem_idx + 2, value % 10)
        s2 == IF Ok(s1) THEN set_mem(s1, mem_idx + 1, (value \div 10) % 10)
              ELSE s1
    IN IF Ok(s2) THEN set_mem(s2, mem_idx, ((value \div 10) \div 10) % 10)
       ELSE s2

(* SaveRegs: for i in 0..max_reg, the upper end excluded *)
RECURSIVE SaveRegs_loop(_, _, _)
SaveRegs_loop(s, i, max_reg) ==
    IF i >= max_reg \/ ~Ok(s) THEN s
    ELSE With(put_mem(s, get_i(s) + i, get_vx(s, i)),
              LAMBDA s1 : SaveRegs_loop(s1, i + 1, max_reg))

SaveRegs_execute(s, raw) == SaveRegs_loop(s, 0, FieldX(raw))

(* RestoreRegs: for i in 0..max_reg, the upper end excluded *)
RECURSIVE RestoreRegs_loop(_, _, _)
RestoreRegs_loop(s, i, max_reg) ==
    IF i >= max_reg \/ ~Ok(s) THEN s
    ELSE With(IF ~read_mem_ok(s, get_i(s) + i, 1) THEN Panic(s, IndexPanic)
              ELSE set_vx(s, i, read_mem(s, get_i(s) + i, 1)[1]),
              LAMBDA s1 : RestoreRegs_loop(s1, i + 1, max_reg))

RestoreRegs_execute(s, raw) == RestoreRegs_loop(s, 0, FieldX(raw))

(* instr::execute: dynamic dispatch on the struct parse() chose *)
execute(kind, s, raw, rnd_byte) ==
    CASE kind = "Cls" -> Cls_execute(s, raw)
      [] kind = "Ret" -> Ret_execute(s, raw)
      [] kind = "Jp" -> Jp_execute(s, raw)
      [] kind = "Call" -> Call_execute(s, raw)
      [] kind = "SeB" -> SeB_execute(s, raw)
      [] kind = "Sne" -> Sne_execute(s, raw)
      [] kind = "SeV" -> SeV_execute(s, raw)
      [] kind = "Ld" -> Ld_execute(s, raw)
      [] kind = "Add" -> Add_execute(s, raw)
      [] kind = "LdReg" -> LdReg_execute(s, raw)
      [] kind = "And" -> And_execute(s, raw)
      [] kind = "Xor" -> Xor_execute(s, raw)
      [] kind = "Sub" -> Sub_execute(s, raw)
      [] kind = "Shr" -> Shr_execute(s, raw)
      [] kind = "LdI" -> LdI_execute(s, raw)
      [] kind = "Rnd" -> Rnd_execute(s, raw, rnd_byte)
      [] kind = "Drw" -> Drw_execute(s, raw)
      [] kind = "SkpVx" -> SkpVx_execute(s, raw)
      [] kind = "SknpVx" -> SknpVx_execute(s, raw)
      [] kind = "LdVxDt" -> LdVxDt_execute(s, raw)
      [] kind = "LdVxK" -> LdVxK_execute(s, raw)
      [] kind = "LdDt" -> LdDt_execute(s, raw)
      [] kind = "AddI" -> AddI_execute(s, raw)
      [] kind = "LdSprite" -> LdSprite_execute(s, raw)
      [] kind = "LdBCD" -> LdBCD_execute(s, raw)
      [] kind = "SaveRegs" -> SaveRegs_execute(s, raw)
      [] kind = "RestoreRegs" -> RestoreRegs_execute(s, raw)

---------------------------------------------------------------------------
(* Cpu::tick *)

Ev(type, keycode) == [type |-> type, keycode |-> keycode]

(* A faulty match, for comparison: the debug toggle also restarts the Cpu *)
handle_event_resuming(s, ev) ==
    CASE ev.type = "Quit" \/ (ev.type = "KeyDown" /\ ev.keycode = "Escape") ->
            [s EXCEPT !.running = FALSE]
      [] ev.type = "KeyDown" /\ ev.keycode = "P" ->
            [s EXCEPT !.debug = ~s.debug, !.paused = ~s.debug, !.running = TRUE]
      [] ev.type = "KeyDown" /\ ev.keycode = "Space" ->
            [s EXCEPT !.paused = FALSE]
      [] ev.type = "KeyDown" /\ ev.keycode \notin {"Escape", "P", "Space"} ->
            press(s, ev.keycode, TRUE)
      [] ev.type = "KeyUp" -> press(s, ev.keycode, FALSE)
      [] OTHER -> s

handle_event(s, ev) ==
    CASE ev.type = "Quit" \/ (ev.type = "KeyDown" /\ ev.keycode = "Escape") ->
            [s EXCEPT !.running = FALSE]
      [] ev.type = "KeyDown" /\ ev.keycode = "P" ->
            [s EXCEPT !.debug = ~s.debug, !.paused = ~s.debug]
      [] ev.type = "KeyDown" /\ ev.keycode = "Space" ->
            [s EXCEPT !.paused = FALSE]
      [] ev.type = "KeyDown" /\ ev.keycode \notin {"Escape", "P", "Space"} ->
            press(s, ev.keycode, TRUE)
      [] ev.type = "KeyUp" -> press(s, ev.keycode, FALSE)
      [] OTHER -> s

RECURSIVE poll_iter(_, _, _)
poll_iter(s, batch, k) ==
    IF k > Len(batch) THEN s
    ELSE With(handle_event(s, batch[k]),
              LAMBDA s1 : poll_iter(s1, batch, k + 1))

(* The instruction phase of a tick: fetch, parse, dec_dt, execute, and the *)
(* re-arming of the pause when stepping.                                   *)
run_one(s, rnd_byte) ==
    With(read_instr(s), LAMBDA s1 :
      IF ~Ok(s1) THEN s1
      ELSE With(read_instr_value(s), LAMBDA raw :
           With(Parse(raw), LAMBDA kind :
             IF kind = Unsupported THEN Panic(s1, Unsupported)
             ELSE With(dec_dt(s1), LAMBDA s2 :
                  With(execute(kind, s2, raw, rnd_byte), LAMBDA s3 :
                    IF Ok(s3) THEN [s3 EXCEPT !.paused = s3.debug] ELSE s3)))))

(* A faulty tick, for comparison: the instruction phase ignores the pause *)
tick_ignoring_pause(s, batch, rnd_byte) ==
    With(poll_iter(s, batch, 1), LAMBDA s1 : run_one(s1, rnd_byte))

tick(s, batch, rnd_byte) ==
    With(poll_iter(s, batch, 1), LAMBDA s1 :
        IF ~s1.paused THEN run_one(s1, rnd_byte) ELSE s1)

(* What a tick fetched, for the history variables *)
Fetched(s, batch) ==
    With(poll_iter(s, batch, 1), LAMBDA s1 :
      LET fetch == ~s1.paused /\ read_instr_ok(s1) IN
      With(IF fetch THEN read_instr_value(s1) ELSE 0, LAMBDA raw :
        [ran |-> ~s1.paused,
         p |-> s1.r_pc,
         raw |-> raw,
         kind |-> IF fetch THEN Parse(raw) ELSE "none"]))

---------------------------------------------------------------------------
(* Cpu::new: load_sprites, load_rom, and the initial registers *)

sprites ==
    <<240, 32, 240, 240, 144, 240, 240,
      144, 96, 16, 16, 144, 128, 128,
      144, 32, 240, 240, 240, 240, 240,
      144, 32, 128, 16, 16, 16, 144,
      240, 112, 240, 240, 16, 240, 240,
      240, 240, 240, 240, 224, 240, 240,
      16, 144, 144, 128, 144, 128, 128,
      32, 240, 240, 128, 144, 240, 240,
      64, 144, 16, 128, 144, 128, 128,
      64, 240, 240, 240, 224, 240, 128>>

(* load_sprites: for i in 0..sprites.len() { mem[i] = sprites[i] }, here *)
(* for i in lo..hi (the range is halved rather than walked)               *)
RECURSIVE load_sprites_loop(_, _, _)
load_sprites_loop(m, lo, hi) ==
    IF lo > hi THEN m
    ELSE IF lo = hi THEN [m EXCEPT ![lo] = sprites[lo + 1]]
    ELSE With(load_sprites_loop(m, lo, (lo + hi) \div 2),
              LAMBDA m1 : load_sprites_loop(m1, (lo + hi) \div 2 + 1, hi))

load_sprites(m) == load_sprites_loop(m, 0, Len(sprites) - 1)

(* load_rom: for i in 0..buf.len() { mem[i + PROGRAM_START] = buf[i] }; the *)
(* store panics at the first index past the end of memory                  *)
(* A faulty bounds check, for comparison: an oversize file is cut short *)
load_rom_ok_truncating(buf) == TRUE

load_rom_ok(buf) == Len(buf) + PROGRAM_START <= MEM_SIZE

RECURSIVE load_rom_loop(_, _, _, _)
load_rom_loop(m, buf, lo, hi) ==
    IF lo > hi THEN m
    ELSE IF lo = hi
    THEN IF lo + PROGRAM_START >= MEM_SIZE THEN m
         ELSE [m EXCEPT ![lo + PROGRAM_START] = buf[lo + 1]]
    ELSE With(load_rom_loop(m, buf, lo, (lo + hi) \div 2),
              LAMBDA m1 : load_rom_loop(m1, buf, (lo + hi) \div 2 + 1, hi))

(* A faulty load_rom, for comparison: the last byte of the file is dropped *)
load_rom_skipping_last(m, buf) == load_rom_loop(m, buf, 0, Len(buf) - 2)

load_rom(m, buf) == load_rom_loop(m, buf, 0, Len(buf) - 1)

(* The memory Cpu::new starts from: zeroes, then the sprites *)
sprite_mem == load_sprites([a \in 0..(MEM_SIZE - 1) |-> 0])

new(rom_file, profile) ==
    [pixels |-> [y \in 0..(DISPLAY_HEIGHT - 1) |->
                    [x \in 0..(DISPLAY_WIDTH - 1) |-> 0]],
     keys |-> [k \in 0..(NUM_KEYS - 1) |-> FALSE],
     running |-> TRUE,
     paused |-> FALSE,
     debug |-> TRUE,
     r_vx |-> [r \in 0..(NUM_REGS - 1) |-> 0],
     r_i |-> 0,
     r_dt |-> 0,
     r_st |-> 0,
     r_pc |-> PROGRAM_START,
     r_sp |-> 0,
     stack |-> [k \in 0..(STACK_SIZE - 1) |-> 0],
     mem |-> load_rom(sprite_mem, rom_file),
     status |-> IF load_rom_ok(rom_file) THEN "ok" ELSE IndexPanic,
     build |-> profile]

---------------------------------------------------------------------------
(* The inputs: ROM images, event tapes, random bytes *)

W(n3, n2, n1, n0) == n3 * 4096 + n2 * 256 + n1 * 16 + n0
WB(n3, n2, byte) == n3 * 4096 + n2 * 256 + byte
WA(n3, addr) == n3 * 4096 + addr

(* The bytes of a sequence of words, most significant byte first *)
Bytes(ws) ==
    [k \in 1..(2 * Len(ws)) |->
        IF k % 2 = 1 THEN ws[(k + 1) \div 2] \div 256
        ELSE ws[k \div 2] % 256]

Regs == {0, 1, 15}
Vals == {0, 1, 2, 255}
RndBytes == {0, 165, 255}

(* Bounds of the input families *)
MaxDepth == 16      \* deepest chain of nested CALLs
MaxTape == 2        \* longest tape of free event batches

(* P on the first tick turns stepping off: the machine then runs freely *)
FreeRun == << <<Ev("KeyDown", "P")>> >>

(* LD Vx,a; LD Vy,b; 8xy<op> *)
AluOps == {4, 5, 6}
AluRoms ==
    {Bytes(<<WB(6, x, a), WB(6, y, b), W(8, x, y, op)>>) :
        x \in Regs, y \in Regs, a \in Vals, b \in Vals, op \in AluOps}

(* One word alone, over every high nibble and a spread of low bytes *)
ProbeLow ==
    {0, 1, 7, 10, 14, 21, 24, 30, 41, 51, 85, 101, 158, 161, 224, 238, 255}
        \cup {16 + n : n \in 0..15}
ProbeRoms == {Bytes(<<WB(hi, 0, lo)>>) : hi \in 0..15, lo \in ProbeLow}

(* LD V0,vx; LD V1,vy; LD I,a1; DRW; LD I,a2; DRW; DRW; then sprite data *)
SpriteData == <<65409, 15420>>              \* rows 0xFF 0x81 0x3C 0x3C
SpriteAt == PROGRAM_START + 14
DrawXs == {0, 63, 255}
DrawYs == {0, 31}
DrawAddrs == {0, SpriteAt, MEM_SIZE - 6}
DrawRows == {0, 1, 15}
DrawRoms ==
    {Bytes(<<WB(6, 0, vx), WB(6, 1, vy), WA(10, a1), W(13, 0, 1, n),
             WA(10, a2), W(13, 0, 1, n), W(13, 0, 1, n)>> \o SpriteData) :
        vx \in DrawXs, vy \in DrawYs, a1 \in DrawAddrs, a2 \in DrawAddrs,
        n \in DrawRows}

(* Routine j at 0x200+4j is CALL routine j+1; RET.  The last routine is a *)
(* lone RET, and the main routine ends in tail instead of RET.            *)
CallChain(depth, tail) ==
    [k \in 1..(2 * depth + 1) |->
        IF k = 2 * depth + 1 THEN 238
        ELSE IF k % 2 = 1 THEN WA(2, PROGRAM_START + 2 * (k + 1))
        ELSE IF k = 2 THEN tail ELSE 238]
StackRoms ==
    {Bytes(CallChain(depth, tail)) : depth \in 1..MaxDepth, tail \in {0, 238}}

(* LD V0,d; LD DT,V0; then loads that leave the timer alone *)
TimerRoms ==
    {Bytes(<<WB(6, 0, d), WB(15, 0, 21), WB(6, 1, 0), WB(6, 1, 1), WB(6, 1, 2)>>) :
        d \in {0, 1, 2, 3}}

(* LD V0,v; LD I,a; LD B,V0 *)
BcdVals == {0, 9, 10, 157, 255}
BcdAddrs == {0, PROGRAM_START + 256, MEM_SIZE - 3, MEM_SIZE - 2}
BcdRoms ==
    {Bytes(<<WB(6, 0, v), WA(10, a), WB(15, 0, 51)>>) :
        v \in BcdVals, a \in BcdAddrs}

(* LD V0,a; LD V1,b; LD I,addr; LD [I],Vx; LD V0,9; LD V1,8; LD Vx,[I] *)
RegXs == {0, 1, 2, 15}
RegPairs == {<<1, 2>>, <<255, 0>>}
RegAddrs == {PROGRAM_START + 256, MEM_SIZE - 16, MEM_SIZE - 2}
RegRoms ==
    {Bytes(<<WB(6, 0, ab[1]), WB(6, 1, ab[2]), WA(10, addr), WB(15, x, 85),
             WB(6, 0, 9), WB(6, 1, 8), WB(15, x, 101)>>) :
        x \in RegXs, ab \in RegPairs, addr \in RegAddrs}

(* LD V0,d; LD F,V0 *)
FontRoms == {Bytes(<<WB(6, 0, d), WB(15, 0, 41)>>) : d \in 0..15}

(* LD Vx,K; LD V2,1: run freely, under tapes of key events *)
KeyRoms == {Bytes(<<WB(15, x, 10), WB(6, 2, 1)>>) : x \in {0, 1}}
KeyBatches ==
    {<<>>, <<Ev("KeyDown", "X")>>, <<Ev("KeyDown", "V")>>,
     <<Ev("KeyDown", "Num1"), Ev("KeyDown", "V")>>,
     <<Ev("KeyUp", "V")>>, <<Ev("KeyDown", "Return")>>}

(* The debug and quit controls, alone and followed by another event *)
SchedBatches ==
    {<<>>, <<Ev("KeyDown", "P")>>, <<Ev("KeyDown", "Space")>>,
     <<Ev("Quit", "")>>, <<Ev("KeyDown", "Escape")>>,
     <<Ev("Quit", ""), Ev("KeyDown", "P")>>,
     <<Ev("KeyDown", "Escape"), Ev("KeyDown", "Space")>>,
     <<Ev("KeyDown", "X")>>}
SchedRoms == {Bytes(<<WB(6, 0, 1), WB(7, 0, 1), WB(7, 0, 1), WB(7, 0, 1)>>)}

(* LD Vx,a; SE Vx,kk or SNE Vx,kk; and LD Vx,a; LD Vy,b; SE Vx,Vy *)
SkipRoms ==
    {Bytes(<<WB(6, x, a), WB(op, x, kk)>>) :
        x \in Regs, a \in Vals, op \in {3, 4}, kk \in {0, 255}}
    \cup {Bytes(<<WB(6, x, a), WB(6, y, b), W(5, x, y, 0)>>) :
            x \in Regs, y \in Regs, a \in Vals, b \in Vals}

(* LD V0,vx; LD I,0; DRW V0,V1,n; CLS *)
ClsRoms ==
    {Bytes(<<WB(6, 0, vx), WA(10, 0), W(13, 0, 1, n), 224>>) :
        vx \in {0, 60}, n \in {1, 5}}

(* LD V0,v; then SKP V0 or SKNP V0, the key events arriving with its tick *)
KeySkipVals == {0, 15, 16, 255}
KeySkipRoms ==
    {Bytes(<<WB(6, 0, v), WB(14, 0, lo)>>) : v \in KeySkipVals, lo \in {158, 161}}

(* LD V0,d; LD DT,V0; LD V1,DT *)
DtRoms ==
    {Bytes(<<WB(6, 0, d), WB(15, 0, 21), WB(15, 1, 7)>>) : d \in {0, 1, 3, 255}}

(* Programs that overwrite the next word before it is fetched:            *)
(*   LD V0,0x61; LD V1,0x2A; LD I,0x208; LD [I],V2; LD V3,7 (overwritten) *)
(*   LD V0,v; LD I,0x207; LD B,V0; LD V2,0xFF (low byte overwritten)      *)
SelfModRoms ==
    {Bytes(<<WB(6, 0, 97), WB(6, 1, 42), WA(10, PROGRAM_START + 8),
             WB(15, 2, 85), WB(6, 3, 7)>>)}
    \cup {Bytes(<<WB(6, 0, v), WA(10, PROGRAM_START + 7), WB(15, 0, 51),
                  WB(6, 2, 255), WB(6, 3, 7)>>) : v \in {7, 255}}

(* LD V0,3; LD DT,V0; LD V1,K; LD V2,1: the timer runs during the wait *)
KeyWaitRoms ==
    {Bytes(<<WB(6, 0, 3), WB(15, 0, 21), WB(15, 1, 10), WB(6, 2, 1)>>)}

(* JP to the last two addresses: the fetch at 0xFFF reaches past memory *)
FetchRoms == {Bytes(<<WA(1, a)>>) : a \in {MEM_SIZE - 2, MEM_SIZE - 1}}

(* LD V0,255; LD I,0xFFF; then ADD I,V0 often enough to carry out of 16 bits *)
AddICount == 242
AddIRoms ==
    {Bytes(<<WB(6, 0, 255), WA(10, MEM_SIZE - 1)>>
            \o [k \in 1..AddICount |-> WB(15, 0, 30)])}

(* ROM files of every length around the 3584 bytes that fit above 0x200: *)
(* LD V0,3 first, no zero byte anywhere                                   *)
RomOfLen(n) == [k \in 1..n |-> IF k = 1 THEN 96 ELSE (k % 255) + 1]
LoadLens ==
    {0, 1, 2, 70, MEM_SIZE - PROGRAM_START - 1, MEM_SIZE - PROGRAM_START,
     MEM_SIZE - PROGRAM_START + 1, MEM_SIZE - PROGRAM_START + 2}
LoadRoms == {RomOfLen(n) : n \in LoadLens}

RECURSIVE TapesOver(_, _)
TapesOver(batches, n) ==
    IF n = 0 THEN {<<>>}
    ELSE {<<>>} \cup {<<b>> \o tp : b \in batches, tp \in TapesOver(batches, n - 1)}

(* Tapes of up to MaxTape batches, each empty or one debug control *)
Batches == {<<>>, <<Ev("KeyDown", "P")>>, <<Ev("KeyDown", "Space")>>}
RECURSIVE TapesOfLen(_)
TapesOfLen(n) ==
    IF n = 0 THEN {<<>>}
    ELSE {<<b>> \o tp : b \in Batches, tp \in TapesOfLen(n - 1)}
Tapes == UNION {TapesOfLen(n) : n \in 0..MaxTape}

(* The key waits: debug mode turned off, then tapes of key events *)
WaitScenarios ==
    {[rom |-> r, tape |-> FreeRun \o <<<<>>>> \o tp] :
        r \in KeyWaitRoms, tp \in TapesOver(KeyBatches, MaxTape)}

KeyScenarios ==
    {[rom |-> r, tape |-> FreeRun \o tp] :
        r \in KeyRoms, tp \in TapesOver(KeyBatches, MaxTape)}
    \cup WaitScenarios

(* RND V0,kk; SE V0,0; LD V1,K; LD V2,7: the random byte decides whether *)
(* the program waits for a key                                           *)
TwinMasks == {0, 60, 255}
TwinRoms ==
    {Bytes(<<WB(12, 0, kk), WB(3, 0, 0), WB(15, 1, 10), WB(6, 2, 7)>>) :
        kk \in TwinMasks}

(* The inputs two copies of the machine are run on side by side: debug   *)
(* mode turned off, then tapes of key, debug and quit events             *)
TwinBatches ==
    {<<>>, <<Ev("KeyDown", "Num1"), Ev("KeyDown", "V")>>,
     <<Ev("KeyDown", "P")>>, <<Ev("Quit", "")>>}
TwinScenarios ==
    {[rom |-> r, tape |-> FreeRun \o tp] :
        r \in TwinRoms \cup SchedRoms, tp \in TapesOver(TwinBatches, MaxTape)}
    \cup {[rom |-> r, tape |-> FreeRun] : r \in ProbeRoms \cup TimerRoms}

Scenarios ==
    {[rom |-> r, tape |-> FreeRun] :
        r \in AluRoms \cup ProbeRoms \cup DrawRoms \cup StackRoms
              \cup BcdRoms \cup RegRoms \cup FontRoms \cup LoadRoms
              \cup SkipRoms \cup ClsRoms \cup DtRoms \cup SelfModRoms
              \cup FetchRoms \cup AddIRoms}
    \cup KeyScenarios
    \cup {[rom |-> r, tape |-> FreeRun \o <<b>>] :
            r \in KeySkipRoms, b \in KeyBatches}
    \cup {[rom |-> r, tape |-> tp] :
            r \in SchedRoms, tp \in TapesOver(SchedBatches, MaxTape)}
    \cup {[rom |-> r, tape |-> FreeRun \o tp] : r \in TimerRoms, tp \in Tapes}
    \cup {[rom |-> r, tape |-> tp] : r \in TimerRoms, tp \in Tapes}

Profiles == {"debug", "release"}

---------------------------------------------------------------------------
(* The state machine *)

NoFetch ==
    [ran |-> FALSE, p |-> 0, raw |-> 0, kind |-> "none", depth |-> 0, ret_to |-> 0]

(* What a tick fetched, with the pending CALLs as they were before it *)
History(f, pending) ==
    [ran |-> f.ran, p |-> f.p, raw |-> f.raw, kind |-> f.kind,
     depth |-> Len(pending),
     ret_to |-> IF pending = <<>> THEN 0 ELSE pending[Len(pending)]]

(* The pending CALLs after a tick that fetched f and left the Cpu in s *)
Pending(f, s, pending) ==
    IF ~(f.ran /\ Ok(s)) THEN pending
    ELSE IF f.kind = "Call" THEN Append(pending, f.p + 2)
    ELSE IF f.kind = "Ret" /\ pending # <<>>
         THEN SubSeq(pending, 1, Len(pending) - 1)
    ELSE pending

(* The last LD [I],Vx that completed: its x, and I, the registers and the *)
(* memory as it left them                                                 *)
NoSave == [set |-> FALSE, x |-> 0, r_i |-> 0, r_vx |-> <<>>, mem |-> <<>>]

Saved(f, s, before) ==
    IF f.ran /\ f.kind = "SaveRegs" /\ Ok(s)
    THEN [set |-> TRUE, x |-> FieldX(f.raw), r_i |-> s.r_i,
          r_vx |-> s.r_vx, mem |-> s.mem]
    ELSE before

(* The events Cpu::tick treats as scheduler controls *)
Control(ev) ==
    \/ ev.type = "Quit"
    \/ ev.type = "KeyDown" /\ ev.keycode \in {"Escape", "P", "Space"}

NoDraws == [cpu |-> 0, twin |-> 0, same |-> TRUE]

InitFrom(scenarios) ==
    \E sc \in scenarios, profile \in Profiles :
        /\ cpu = new(sc.rom, profile)
        /\ rom = sc.rom
        /\ tape = sc.tape
        /\ calls = <<>>
        /\ saved = NoSave
        /\ events = <<>>
        /\ quiet = TRUE
        /\ last = NoFetch /\ last2 = NoFetch
        /\ pre = cpu /\ pre2 = cpu
        /\ twin = new(sc.rom, profile)
        /\ draws = NoDraws

Init == InitFrom(Scenarios)

is_running == cpu.running

RndChoices(f) == IF f.kind = "Rnd" THEN RndBytes ELSE {0}

(* The main loop's condition: it ticks the Cpu while is_running() holds *)
loop_continues == is_running

(* The tick of cpu that drains batch, fetches f and draws rnd_byte *)
TickOf(batch, f, rnd_byte) ==
    /\ cpu' = tick(cpu, batch, rnd_byte)
    /\ rom' = rom
    /\ tape' = IF tape = <<>> THEN <<>> ELSE Tail(tape)
    /\ calls' = Pending(f, cpu', calls)
    /\ saved' = Saved(f, cpu', saved)
    /\ events' = batch
    /\ quiet' = (quiet /\ \A k \in 1..Len(batch) : ~Control(batch[k]))
    /\ last' = History(f, calls) /\ last2' = last
    /\ pre' = cpu /\ pre2' = pre

(* One turn of the main loop: while the Cpu is running, tick *)
Step ==
    /\ loop_continues
    /\ cpu.status = "ok"
    /\ \E batch \in {IF tape = <<>> THEN <<>> ELSE Head(tape)} :
       \E f \in {Fetched(cpu, batch)} :
       \E rnd_byte \in RndChoices(f) :
            /\ TickOf(batch, f, rnd_byte)
            /\ UNCHANGED <<twin, draws>>

Next == Step

Spec == Init /\ [][Next]_vars

(* The key wait alone, with the main loop never sleeping for good: while *)
(* it may tick, it ticks                                                 *)
KeyInit == InitFrom(WaitScenarios)

FairSpec == KeyInit /\ [][Next]_vars /\ WF_vars(Step)

(* Two copies of the machine side by side: each turn both drain the same *)
(* batch of events and each draws its own random byte.  The pair is      *)
(* watched for as long as the first copy's loop runs; the second ticks   *)
(* while its own loop does.                                              *)
TwinInit == InitFrom(TwinScenarios)

TwinStep ==
    /\ loop_continues
    /\ cpu.status = "ok"
    /\ \E batch \in {IF tape = <<>> THEN <<>> ELSE Head(tape)} :
       \E f \in {Fetched(cpu, batch)} :
       \E alive \in {twin.running /\ Ok(twin)} :
       \E g \in {IF alive THEN Fetched(twin, batch) ELSE NoFetch} :
       \E rnd_byte \in RndChoices(f), rnd_twin \in RndChoices(g) :
            /\ TickOf(batch, f, rnd_byte)
            /\ twin' = IF alive THEN tick(twin, batch, rnd_twin) ELSE twin
            /\ draws' = [cpu |-> rnd_byte, twin |-> rnd_twin,
                         same |-> draws.same /\ rnd_byte = rnd_twin]

TwinNext == TwinStep

TwinSpec == TwinInit /\ [][TwinNext]_vars

---------------------------------------------------------------------------
(* Properties.  Each is read in the state a tick leaves: last is what the  *)
(* tick fetched, pre the Cpu before it, cpu the Cpu after it; last2 and    *)
(* pre2 are the same for the tick before.                                  *)

Nibble3(raw) == raw \div 4096
Is8xyN(raw, n) == Nibble3(raw) = 8 /\ raw % 16 = n
Flag(b) == IF b THEN 1 ELSE 0

(* The standard CHIP-8 opcode table the specification refers to *)
Documented(raw) ==
    LET hi == Nibble3(raw)
        n == raw % 16
        kk == raw % 256
    IN \/ raw \in {224, 238}                                    \* 00E0 00EE
       \/ hi \in {1, 2, 3, 4, 6, 7, 10, 11, 12, 13}
       \/ hi \in {5, 9} /\ n = 0                                \* 5xy0 9xy0
       \/ hi = 8 /\ n \in {0, 1, 2, 3, 4, 5, 6, 7, 14}
       \/ hi = 14 /\ kk \in {158, 161}                          \* Ex9E ExA1
       \/ hi = 15 /\ kk \in {7, 10, 21, 24, 30, 41, 51, 85, 101}

(* C1: whenever the word 8xy4 (ADD Vx,Vy) is fetched with Vx = a and       *)
(* Vy = b, it is decoded and executed without error, leaving               *)
(* Vx = (a+b) mod 256 and VF = 1 if a+b > 255, else 0.                     *)
C1_AddVxVy ==
    (last.ran /\ Is8xyN(last.raw, 4)) =>
        LET x == FieldX(last.raw)
            a == pre.r_vx[x]
            b == pre.r_vx[FieldY(last.raw)]
        IN /\ Ok(cpu)
           /\ x # 15 => cpu.r_vx[x] = (a + b) % 256
           /\ cpu.r_vx[15] = Flag(a + b > 255)

(* C2: whenever SUB Vx,Vy is executed with x other than 0xF, any y         *)
(* (0xF included), Vx = a and Vy = b, it leaves Vx = (a-b) mod 256 and     *)
(* VF = 1 if a > b, else 0.                                                *)
C2_SubVxVy ==
    (last.ran /\ last.kind = "Sub" /\ FieldX(last.raw) # 15) =>
        LET x == FieldX(last.raw)
            a == pre.r_vx[x]
            b == pre.r_vx[FieldY(last.raw)]
        IN /\ Ok(cpu)
           /\ cpu.r_vx[x] = (a - b) % 256
           /\ cpu.r_vx[15] = Flag(a > b)

(* C3: whenever SHR Vx is executed with x other than 0xF and Vx = a, it    *)
(* leaves Vx = floor(a/2) and VF = a mod 2, and every general register     *)
(* other than Vx and VF as it was.                                         *)
C3_ShrVx ==
    (last.ran /\ last.kind = "Shr" /\ FieldX(last.raw) # 15) =>
        LET x == FieldX(last.raw)
            a == pre.r_vx[x]
        IN /\ Ok(cpu)
           /\ cpu.r_vx[x] = a \div 2
           /\ cpu.r_vx[15] = a % 2
           /\ \A r \in 0..(NUM_REGS - 1) :
                r \notin {x, 15} => cpu.r_vx[r] = pre.r_vx[r]

(* C3, its case: SHR V0 has run on an odd value with VF clear before *)
C3_ShrVx_Witness ==
    /\ last.ran /\ last.kind = "Shr" /\ FieldX(last.raw) = 0 /\ Ok(cpu)
    /\ pre.r_vx[0] = 255 /\ pre.r_vx[15] = 0
    /\ cpu.r_vx[0] = 127 /\ cpu.r_vx[15] = 1

(* C4: every word of the documented opcode table that is fetched (8xy1,    *)
(* 8xy4, 8xy7, 8xyE, 9xy0, Bnnn and Fx18 among them) is decoded to an      *)
(* instruction: the decoder never aborts on it.                            *)
C4_DecoderAcceptsDocumented ==
    (last.ran /\ last.kind # "none" /\ Documented(last.raw)) =>
        (last.kind # Unsupported /\ cpu.status # Unsupported)

(* C5: every fetched word outside the documented opcode table ends in the  *)
(* fatal decode error; none is decoded as an instruction and executed.     *)
C5_UndocumentedIsDecodeError ==
    (last.ran /\ last.kind # "none" /\ ~Documented(last.raw)) =>
        (last.kind = Unsupported /\ cpu.status = Unsupported)

(* Bit 7-c of the sprite byte of row r, for the sprite at address i *)
SpriteBit(s, i, r, c) == (s.mem[i + r] \div Pow2(7 - c)) % 2

(* C6: whenever DRW Vx,Vy,n is executed with I+n <= 4096, every cell       *)
(* ((Vx+c) mod 64, (Vy+r) mod 32) with r < n and c < 8 becomes its old     *)
(* value XOR bit 7-c of mem[I+r], every other cell keeps its value, and VF *)
(* is 1 if some cell went from 1 to 0 and 0 otherwise; a row 0xFF drawn at *)
(* Vx = 63, Vy = 31 changes the cells (63,31) and (0,31).                  *)
C6_DrwXorsSprite ==
    (last.ran /\ last.kind = "Drw" /\ pre.r_i + FieldN(last.raw) <= MEM_SIZE) =>
        LET vx == pre.r_vx[FieldX(last.raw)]
            vy == pre.r_vx[FieldY(last.raw)]
            n == FieldN(last.raw)
            i == pre.r_i
            row(cy) == (cy - vy) % DISPLAY_HEIGHT
            col(cx) == (cx - vx) % DISPLAY_WIDTH
        IN /\ Ok(cpu)
           /\ \A cy \in 0..(DISPLAY_HEIGHT - 1), cx \in 0..(DISPLAY_WIDTH - 1) :
                cpu.pixels[cy][cx] =
                    IF row(cy) < n /\ col(cx) < 8
                    THEN (pre.pixels[cy][cx] + SpriteBit(pre, i, row(cy), col(cx))) % 2
                    ELSE pre.pixels[cy][cx]
           /\ cpu.r_vx[15] =
                Flag(\E cy \in 0..(DISPLAY_HEIGHT - 1), cx \in 0..(DISPLAY_WIDTH - 1) :
                        pre.pixels[cy][cx] = 1 /\ cpu.pixels[cy][cx] = 0)
           /\ (vx = 63 /\ vy = 31 /\ n = 1 /\ pre.mem[i] = 255) =>
                /\ cpu.pixels[31][63] # pre.pixels[31][63]
                /\ cpu.pixels[31][0] # pre.pixels[31][0]

(* C6, its case: the row 0xFF has been drawn at (63,31) over lit cells, so *)
(* that it wrapped to column 0 and collided                                *)
C6_DrwXorsSprite_Witness ==
    /\ last.ran /\ last.kind = "Drw" /\ Ok(cpu)
    /\ FieldN(last.raw) = 1 /\ pre.mem[pre.r_i] = 255
    /\ pre.r_vx[FieldX(last.raw)] = 63 /\ pre.r_vx[FieldY(last.raw)] = 31
    /\ pre.pixels[31][63] = 1 /\ cpu.pixels[31][63] = 0
    /\ pre.pixels[31][0] = 1 /\ cpu.pixels[31][0] = 0
    /\ cpu.r_vx[15] = 1

(* Two DRWs in succession with the same coordinates, the same I, the same  *)
(* height and the same sprite bytes in memory                              *)
DrwTwice ==
    /\ last.ran /\ last.kind = "Drw" /\ last2.ran /\ last2.kind = "Drw"
    /\ FieldN(last.raw) = FieldN(last2.raw)
    /\ pre.r_vx[FieldX(last.raw)] = pre2.r_vx[FieldX(last2.raw)]
    /\ pre.r_vx[FieldY(last.raw)] = pre2.r_vx[FieldY(last2.raw)]
    /\ pre.r_i = pre2.r_i
    /\ pre.r_i + FieldN(last.raw) <= MEM_SIZE
    /\ \A r \in 0..(FieldN(last.raw) - 1) :
            pre.mem[pre.r_i + r] = pre2.mem[pre.r_i + r]

(* The sprite bits (r, c) of the second draw that satisfy P(cell before    *)
(* the first draw): whether there is one                                   *)
SomeSpriteBit(P(_)) ==
    \E r \in 0..(FieldN(last.raw) - 1), c \in 0..7 :
        /\ SpriteBit(pre, pre.r_i, r, c) = 1
        /\ P(pre2.pixels[(pre.r_vx[FieldY(last.raw)] + r) % DISPLAY_HEIGHT]
                        [(pre.r_vx[FieldX(last.raw)] + c) % DISPLAY_WIDTH])

(* C7, as amended: DRW twice in succession with the same coordinates, I    *)
(* and sprite bytes leaves the framebuffer as it was before the first      *)
(* draw, and VF after the second draw is 1 exactly when some set bit of    *)
(* the sprite lies on a cell that was 0 before the first draw.             *)
C7_DrwTwiceRestores ==
    DrwTwice =>
        /\ Ok(cpu)
        /\ cpu.pixels = pre2.pixels
        /\ cpu.r_vx[15] = Flag(SomeSpriteBit(LAMBDA v : v = 0))

(* C7, its case: a non-empty sprite has been drawn twice over a            *)
(* framebuffer that was lit under all of it, and the second draw reported  *)
(* no collision                                                            *)
C7_DrwTwiceRestores_Witness ==
    /\ DrwTwice /\ Ok(cpu)
    /\ SomeSpriteBit(LAMBDA v : TRUE)
    /\ pre.pixels # pre2.pixels
    /\ cpu.pixels = pre2.pixels
    /\ cpu.r_vx[15] = 0

(* C7, as stated: the same, with VF after the second draw 1 whenever the   *)
(* sprite has a set bit, whatever the framebuffer held                     *)
C7_DrwTwiceFlagAsStated ==
    DrwTwice =>
        /\ Ok(cpu)
        /\ cpu.pixels = pre2.pixels
        /\ cpu.r_vx[15] = Flag(SomeSpriteBit(LAMBDA v : TRUE))

(* C8: whenever fewer than 16 CALLs are pending, a CALL nnn fetched at p   *)
(* whose target holds RET completes, and the RET that follows it leaves    *)
(* PC = p+2 and SP as it was before the CALL.                              *)
C8_CallRetRoundTrip ==
    /\ (/\ last.ran /\ last.kind = "Call" /\ last.depth < STACK_SIZE
        /\ pre.r_sp = last.depth
        /\ read_instr_value(set_pc(pre, FieldAddr(last.raw))) = 238)
            => Ok(cpu)
    /\ (/\ last.ran /\ last.kind = "Ret"
        /\ last2.ran /\ last2.kind = "Call" /\ Ok(pre))
            => (Ok(cpu) /\ cpu.r_pc = last2.p + 2 /\ cpu.r_sp = pre2.r_sp)

(* C9: starting from SP = 0, each of up to 16 nested CALLs completes, and  *)
(* each RET returns to the address after the most recent pending CALL.     *)
C9_SixteenLevels ==
    /\ (last.ran /\ last.kind = "Call" /\ last.depth < STACK_SIZE) => Ok(cpu)
    /\ (last.ran /\ last.kind = "Ret" /\ last.depth > 0)
            => (Ok(cpu) /\ cpu.r_pc = last.ret_to)

(* C10: every decrement of the delay timer leaves 0 when it was 0 and d-1  *)
(* when it was d > 0: after any tick that ran an instruction other than    *)
(* LD DT,Vx, DT is its old value stepped down and floored at 0, and it is  *)
(* always a byte.                                                          *)
C10_TimerFloor ==
    /\ cpu.r_dt \in 0..(U8 - 1)
    /\ (last.ran /\ last.kind \notin {"none", Unsupported, "LdDt"} /\ Ok(cpu)) =>
            cpu.r_dt = IF pre.r_dt = 0 THEN 0 ELSE pre.r_dt - 1

(* C10, its case: the timer was loaded, has counted down from 1 to 0, and  *)
(* a further decrement has left it at 0                                    *)
C10_TimerFloor_Witness ==
    /\ last.ran /\ last2.ran /\ Ok(cpu)
    /\ last.kind = "Ld" /\ last2.kind = "Ld"
    /\ pre2.r_dt = 1 /\ pre.r_dt = 0 /\ cpu.r_dt = 0


IsFx18(raw) == Nibble3(raw) = 15 /\ raw % 256 = 24

(* C11: the sound timer counts down like the delay timer: LD ST,Vx is      *)
(* decoded and leaves ST = Vx, and every other tick that runs an           *)
(* instruction leaves ST one lower, or 0 when it was 0.                    *)
C11_SoundTimer ==
    /\ (last.ran /\ last.kind # "none" /\ IsFx18(last.raw)) =>
            (Ok(cpu) /\ cpu.r_st = pre.r_vx[FieldX(last.raw)])
    /\ (last.ran /\ Ok(cpu) /\ ~IsFx18(last.raw)) =>
            cpu.r_st = IF pre.r_st = 0 THEN 0 ELSE pre.r_st - 1


(* C12: whenever LD B,Vx is executed with Vx = v and I+2 <= 4095, it       *)
(* leaves floor(v/100) at mem[I], floor(v/10) mod 10 at mem[I+1] and       *)
(* v mod 10 at mem[I+2], and every other memory byte, every general        *)
(* register, I, SP and the stack as they were.                             *)
C12_LdBcd ==
    (last.ran /\ last.kind = "LdBCD" /\ pre.r_i + 2 <= MEM_SIZE - 1) =>
        LET v == pre.r_vx[FieldX(last.raw)]
            i == pre.r_i
        IN /\ Ok(cpu)
           /\ cpu.mem = [pre.mem EXCEPT ![i] = v \div 100,
                                        ![i + 1] = (v \div 10) % 10,
                                        ![i + 2] = v % 10]
           /\ cpu.r_vx = pre.r_vx
           /\ cpu.r_i = pre.r_i
           /\ cpu.r_sp = pre.r_sp /\ cpu.stack = pre.stack

(* C12, its case: 157 has been stored as 1, 5, 7 at the last three bytes   *)
(* of memory                                                               *)
C12_LdBcd_Witness ==
    /\ last.ran /\ last.kind = "LdBCD" /\ Ok(cpu)
    /\ pre.r_vx[FieldX(last.raw)] = 157 /\ pre.r_i = MEM_SIZE - 3
    /\ cpu.mem[pre.r_i] = 1 /\ cpu.mem[pre.r_i + 1] = 5 /\ cpu.mem[pre.r_i + 2] = 7


(* C13: whenever LD [I],Vx is executed with I+x <= 4095, mem[I+k] holds Vk *)
(* for every k in 0..x (Vx included) and every other memory byte is as it  *)
(* was.                                                                    *)
C13_SaveRegsInclusive ==
    (last.ran /\ last.kind = "SaveRegs"
        /\ pre.r_i + FieldX(last.raw) <= MEM_SIZE - 1) =>
        LET x == FieldX(last.raw)
            i == pre.r_i
        IN /\ Ok(cpu)
           /\ cpu.mem = [a \in 0..(MEM_SIZE - 1) |->
                            IF a \in i..(i + x) THEN pre.r_vx[a - i]
                            ELSE pre.mem[a]]

(* C14: whenever LD Vx,[I] is executed after LD [I],Vx with the same x and *)
(* I and the memory as the store left it, V0..Vx (Vx included) hold the    *)
(* values they had at the store, whatever they were changed to since, and  *)
(* the registers above Vx are as they were before the load.                *)
C14_RestoreInvertsSave ==
    (/\ last.ran /\ last.kind = "RestoreRegs"
     /\ saved.set /\ saved.x = FieldX(last.raw)
     /\ pre.r_i = saved.r_i /\ pre.mem = saved.mem
     /\ pre.r_i + FieldX(last.raw) <= MEM_SIZE - 1) =>
        /\ Ok(cpu)
        /\ \A k \in 0..FieldX(last.raw) : cpu.r_vx[k] = saved.r_vx[k]
        /\ \A k \in (FieldX(last.raw) + 1)..(NUM_REGS - 1) :
                cpu.r_vx[k] = pre.r_vx[k]


(* The rows of the sixteen hexadecimal glyphs, digit 0 first *)
Glyphs ==
    <<<<240, 144, 144, 144, 240>>, <<32, 96, 32, 32, 112>>,
      <<240, 16, 240, 128, 240>>, <<240, 16, 240, 16, 240>>,
      <<144, 144, 240, 16, 16>>, <<240, 128, 240, 16, 240>>,
      <<240, 128, 240, 144, 240>>, <<240, 16, 32, 64, 64>>,
      <<240, 144, 240, 144, 240>>, <<240, 144, 240, 16, 240>>,
      <<240, 144, 240, 144, 144>>, <<224, 144, 224, 144, 224>>,
      <<240, 128, 128, 128, 240>>, <<224, 144, 144, 144, 224>>,
      <<240, 128, 240, 128, 240>>, <<240, 128, 240, 128, 128>>>>

GlyphAt(s, a, d) == \A r \in 0..4 : s.mem[a + r] = Glyphs[d + 1][r + 1]

(* C15: after initialisation glyph d lies in the 5 bytes from address 5d,  *)
(* for all 16 digits, and whenever LD F,Vx is executed with Vx = d, a      *)
(* digit, it leaves I = 5d with the rows of glyph d at I..I+4.             *)
C15_FontTable ==
    /\ (last = NoFetch /\ Ok(cpu)) => \A d \in 0..15 : GlyphAt(cpu, 5 * d, d)
    /\ (last.ran /\ last.kind = "LdSprite" /\ pre.r_vx[FieldX(last.raw)] <= 15) =>
            LET d == pre.r_vx[FieldX(last.raw)]
            IN Ok(cpu) /\ cpu.r_i = 5 * d /\ GlyphAt(cpu, cpu.r_i, d)


(* The keys held down when the instruction of the last tick executed *)
KeysDown == {k \in 0..(NUM_KEYS - 1) : cpu.keys[k]}

(* C16: whenever LD Vx,K fetched at p is executed: with no key down, the   *)
(* tick ends with PC = p and the general registers, I, memory, stack and   *)
(* framebuffer as they were; with a key down, Vx is the lowest index of a  *)
(* key that is down and PC = p+2.                                          *)
C16_LdVxK ==
    (last.ran /\ last.kind = "LdVxK") =>
        /\ Ok(cpu)
        /\ KeysDown = {} =>
            /\ cpu.r_pc = last.p
            /\ cpu.r_vx = pre.r_vx /\ cpu.r_i = pre.r_i /\ cpu.mem = pre.mem
            /\ cpu.stack = pre.stack /\ cpu.r_sp = pre.r_sp
            /\ cpu.pixels = pre.pixels
        /\ KeysDown # {} =>
            /\ cpu.r_vx[FieldX(last.raw)] \in KeysDown
            /\ \A k \in KeysDown : cpu.r_vx[FieldX(last.raw)] <= k
            /\ cpu.r_pc = last.p + 2

(* C16, its case: LD Vx,K found no key in one tick, was fetched again at   *)
(* the same address in the next with the keys 1 and F down, and took 1     *)
C16_LdVxK_Witness ==
    /\ last2.ran /\ last2.kind = "LdVxK" /\ pre.r_pc = last2.p
    /\ last.ran /\ last.kind = "LdVxK" /\ last.p = last2.p /\ Ok(cpu)
    /\ KeysDown = {1, 15}
    /\ cpu.r_vx[FieldX(last.raw)] = 1 /\ cpu.r_pc = last.p + 2


(* A tick has been taken *)
Ticked == last # NoFetch

Skips == {"SeB", "Sne", "SeV", "SkpVx", "SknpVx"}

(* C17: a tick that is paused after its input drain leaves PC, SP, the     *)
(* stack, V0..VF, I, DT, ST, memory and the framebuffer as they were; a    *)
(* tick that is not paused fetches once (PC is p+2, or what the one        *)
(* instruction fetched at p makes of p+2) and executes that instruction    *)
(* once, with DT stepped down at most once.                                *)
C17_OneInstructionPerTick ==
    /\ (Ticked /\ ~last.ran) =>
        /\ cpu.r_pc = pre.r_pc /\ cpu.r_sp = pre.r_sp /\ cpu.stack = pre.stack
        /\ cpu.r_vx = pre.r_vx /\ cpu.r_i = pre.r_i
        /\ cpu.r_dt = pre.r_dt /\ cpu.r_st = pre.r_st
        /\ cpu.mem = pre.mem /\ cpu.pixels = pre.pixels
    /\ (last.ran /\ Ok(cpu)) =>
        /\ last.p = pre.r_pc
        /\ cpu.r_pc =
            CASE last.kind \in Skips ->
                    IF cpu.r_pc = last.p + 4 THEN last.p + 4 ELSE last.p + 2
              [] last.kind \in {"Jp", "Call"} -> FieldAddr(last.raw)
              [] last.kind = "Ret" -> pre.stack[pre.r_sp]
              [] last.kind = "LdVxK" -> IF KeysDown = {} THEN last.p ELSE last.p + 2
              [] OTHER -> last.p + 2
        /\ last.kind = "Add" =>
                cpu.r_vx[FieldX(last.raw)] =
                    (pre.r_vx[FieldX(last.raw)] + FieldByte(last.raw)) % U8
        /\ last.kind # "LdDt" => cpu.r_dt \in {pre.r_dt, pre.r_dt - 1}

(* C17, its case: a tick ran ADD V0,1 once, and the tick after it, paused, *)
(* changed nothing                                                         *)
C17_OneInstructionPerTick_Witness ==
    /\ last2.ran /\ last2.kind = "Add" /\ pre.r_vx[0] = pre2.r_vx[0] + 1
    /\ pre.r_pc = last2.p + 2
    /\ Ticked /\ ~last.ran /\ cpu.r_pc = pre.r_pc /\ cpu.r_vx = pre.r_vx


(* C18: from the initial state, as long as no debug-toggle, single-step or *)
(* quit event has been drained, every tick fetches and executes one        *)
(* instruction and leaves the scheduler running, not paused.               *)
C18_RunsWithoutEvents ==
    (Ticked /\ quiet /\ Ok(pre)) =>
        (last.ran /\ cpu.running /\ (Ok(cpu) => ~cpu.paused))

(* C19: a tick that drains one debug-toggle event ends paused if it began  *)
(* running and running if it began paused; a tick that drains one          *)
(* single-step event while paused executes one instruction and ends        *)
(* paused; a single-step event drained while running with debug mode off   *)
(* changes nothing of the scheduler.                                       *)
C19_DebugControls ==
    /\ (Ticked /\ events = <<Ev("KeyDown", "P")>> /\ Ok(cpu)) =>
            cpu.paused = ~pre.paused
    /\ (Ticked /\ events = <<Ev("KeyDown", "Space")>> /\ pre.paused /\ Ok(cpu)) =>
            (last.ran /\ cpu.paused)
    /\ (Ticked /\ events = <<Ev("KeyDown", "Space")>>
            /\ ~pre.paused /\ ~pre.debug /\ Ok(cpu)) =>
            (cpu.paused = pre.paused /\ cpu.debug = pre.debug
                /\ cpu.running = pre.running)


(* The quit events: window close and the Escape key *)
IsQuit(ev) ==
    \/ ev.type = "Quit"
    \/ ev.type = "KeyDown" /\ ev.keycode = "Escape"

QuitSeen == \E k \in 1..Len(events) : IsQuit(events[k])

NotQuit(ev) == ~IsQuit(ev)

(* C20: a tick whose input drain holds a quit event ends stopped whatever  *)
(* events follow the quit in that drain, and is otherwise the tick the     *)
(* same events without the quit would have been (its instruction phase     *)
(* runs to its end); once stopped, the Cpu is never running again and no   *)
(* further tick fetches or changes anything.                               *)
C20_StoppedIsTerminal ==
    /\ []((Ticked /\ QuitSeen) =>
            /\ ~cpu.running
            /\ \E rnd_byte \in RndChoices(last) :
                cpu = [tick(pre, SelectSeq(events, NotQuit), rnd_byte)
                            EXCEPT !.running = FALSE])
    /\ [][~cpu.running => (cpu' = cpu /\ last' = last)]_vars

C20_StoppedIsTerminal_Witness ==
    /\ Ticked /\ events = <<Ev("Quit", ""), Ev("KeyDown", "P")>>
    /\ pre.running /\ ~cpu.running
    /\ last.ran /\ last.kind = "Ld" /\ cpu.r_pc = pre.r_pc + 2


(* The most a ROM file may hold: the bytes from 0x200 to the end of memory *)
RomFits == Len(rom) <= MEM_SIZE - PROGRAM_START

(* Memory with the sprite table below 0x200 and 0 from 0x200 up, and the  *)
(* same with bytes lo..hi of the ROM file laid over it from 0x200         *)
ZeroAbove == [a \in 0..4095 |-> IF a < 512 THEN sprite_mem[a] ELSE 0]

RECURSIVE RomOver(_, _, _)
RomOver(m, lo, hi) ==
    IF lo > hi THEN m
    ELSE IF lo = hi THEN [m EXCEPT ![512 + lo] = rom[lo + 1]]
    ELSE With(RomOver(m, lo, (lo + hi) \div 2),
              LAMBDA m1 : RomOver(m1, (lo + hi) \div 2 + 1, hi))

(* C21: in the state Cpu::new leaves for a ROM of L <= 3584 bytes, V0..VF, *)
(* I, DT, ST and SP are 0, PC is 0x200, every framebuffer cell is 0, no    *)
(* key is pressed, mem[0x200+i] is byte i of the ROM for every i < L, and  *)
(* every memory byte from 0x200+L up is 0 (memory is the zeroed image     *)
(* with only the L bytes of the ROM laid over it).                         *)
C21_InitialState ==
    (~Ticked /\ RomFits) =>
        /\ Ok(cpu)
        /\ \A r \in 0..15 : cpu.r_vx[r] = 0
        /\ cpu.r_i = 0 /\ cpu.r_dt = 0 /\ cpu.r_st = 0
        /\ cpu.r_pc = 512 /\ cpu.r_sp = 0
        /\ cpu.pixels = [y \in 0..31 |-> [x \in 0..63 |-> 0]]
        /\ \A k \in 0..15 : ~cpu.keys[k]
        /\ \A i \in 0..(Len(rom) - 1) : cpu.mem[512 + i] = rom[i + 1]
        /\ cpu.mem = RomOver(ZeroAbove, 0, Len(rom) - 1)

C21_InitialState_Witness ==
    /\ ~Ticked /\ Len(rom) = 3584 /\ Ok(cpu)
    /\ rom[3584] # 0 /\ cpu.mem[4095] = rom[3584] /\ cpu.mem[512] = 96

(* C22: a ROM file of more than 3584 bytes ends Cpu::new in a panic, so   *)
(* that no tick ever runs; the Cpu is never left running on a shortened   *)
(* image, and no byte of the file lands below 0x200.                      *)
C22_OversizeRomRejected ==
    ~RomFits =>
        /\ ~Ok(cpu)
        /\ ~Ticked
        /\ \A a \in 0..511 : cpu.mem[a] = sprite_mem[a]

C22_OversizeRomRejected_Witness ==
    /\ Len(rom) = 3585 /\ cpu.status = IndexPanic /\ ~Ticked


(* Whether the skip fetched by the last tick had its condition met *)
SkipCond ==
    LET x == (last.raw \div 256) % 16
        y == (last.raw \div 16) % 16
        kk == last.raw % 256
    IN CASE last.kind = "SeB" -> pre.r_vx[x] = kk
         [] last.kind = "Sne" -> pre.r_vx[x] # kk
         [] last.kind = "SeV" -> pre.r_vx[x] = pre.r_vx[y]
         [] OTHER -> FALSE

(* C23: a tick that fetches SE Vx,kk, SNE Vx,kk or SE Vx,Vy at p ends with *)
(* PC = p+4 when the condition holds and PC = p+2 when it does not, and    *)
(* with V0..VF, I, SP, the stack, ST, memory and the framebuffer as they   *)
(* were (DT is stepped by the tick, not by the instruction).               *)
C23_ConditionalSkips ==
    (last.ran /\ last.kind \in {"SeB", "Sne", "SeV"}) =>
        /\ Ok(cpu)
        /\ last.p = pre.r_pc
        /\ cpu.r_pc = IF SkipCond THEN last.p + 4 ELSE last.p + 2
        /\ cpu.r_vx = pre.r_vx /\ cpu.r_i = pre.r_i
        /\ cpu.r_sp = pre.r_sp /\ cpu.stack = pre.stack
        /\ cpu.r_st = pre.r_st
        /\ cpu.r_dt = (IF pre.r_dt = 0 THEN 0 ELSE pre.r_dt - 1)
        /\ cpu.mem = pre.mem /\ cpu.pixels = pre.pixels

C23_ConditionalSkips_Witness ==
    /\ last.ran /\ last.kind = "SeV" /\ Ok(cpu)
    /\ (last.raw \div 256) % 16 = 1 /\ (last.raw \div 16) % 16 = 15
    /\ pre.r_vx[1] = 255 /\ pre.r_vx[15] = 255
    /\ cpu.r_pc = last.p + 4


Blank == [y \in 0..31 |-> [x \in 0..63 |-> 0]]

(* C24: in every state each of the 64x32 framebuffer cells is 0 or 1; a   *)
(* tick that executes CLS leaves every cell 0; and a tick that executes   *)
(* any instruction other than CLS and DRW, or none, leaves every cell as  *)
(* it was.                                                                *)
C24_Framebuffer ==
    /\ cpu.pixels \in [0..31 -> [0..63 -> {0, 1}]]
    /\ (last.ran /\ last.kind = "Cls" /\ Ok(cpu)) => cpu.pixels = Blank
    /\ ~(last.ran /\ last.kind \in {"Cls", "Drw"}) => cpu.pixels = pre.pixels

C24_Framebuffer_Witness ==
    /\ last.ran /\ last.kind = "Cls" /\ Ok(cpu)
    /\ last2.kind = "Drw" /\ pre.pixels[0][60] = 1 /\ pre.pixels[4][63] = 1
    /\ cpu.pixels = Blank


(* Whether a key whose index is v is down in state s *)
KeyDown(s, v) == v \in 0..15 /\ s.keys[v]

(* C25: a tick that fetches SKP Vx at p ends with PC = p+4 exactly when a *)
(* key whose index equals Vx is down, and one that fetches SKNP Vx ends   *)
(* with PC = p+4 exactly when no such key is down, whatever Vx in 0..255  *)
(* is; V0..VF and the keys are as the input drain left them.              *)
C25_KeySkips ==
    (last.ran /\ last.kind \in {"SkpVx", "SknpVx"}) =>
        LET v == pre.r_vx[(last.raw \div 256) % 16]
            skip == (last.kind = "SkpVx") <=> KeyDown(cpu, v)
        IN /\ Ok(cpu)
           /\ cpu.r_pc = IF skip THEN last.p + 4 ELSE last.p + 2
           /\ cpu.r_vx = pre.r_vx
           /\ cpu.keys = poll_iter(pre, events, 1).keys


(* C26: within a tick the instruction is executed before the delay timer  *)
(* is stepped: a tick that executes LD Vx,DT leaves in Vx the value DT    *)
(* had when the tick began, and a tick that executes LD DT,Vx with        *)
(* Vx = v > 0 ends with DT = v-1.                                         *)
C26_ExecuteBeforeTimer ==
    LET x == (last.raw \div 256) % 16 IN
    /\ (last.ran /\ last.kind = "LdVxDt" /\ Ok(cpu)) =>
            cpu.r_vx[x] = pre.r_dt
    /\ (last.ran /\ last.kind = "LdDt" /\ Ok(cpu) /\ pre.r_vx[x] > 0) =>
            cpu.r_dt = pre.r_vx[x] - 1


(* The big-endian word at p in memory m, and in the ROM file as loaded *)
Word(m, p) == m[p] * 256 + m[p + 1]

RomWord(p) ==
    LET i == p - 512 IN
    IF i >= 0 /\ i + 2 <= Len(rom) THEN rom[i + 1] * 256 + rom[i + 2] ELSE 0

AtKeyWait ==
    /\ Ok(cpu) /\ cpu.running /\ ~cpu.paused /\ ~cpu.debug
    /\ cpu.r_pc + 1 <= 4095
    /\ Parse(Word(cpu.mem, cpu.r_pc)) = "LdVxK"

AnyKey(s) == \E k \in 0..15 : s.keys[k]

(* s after the input drains of the next n ticks of tape tp *)
RECURSIVE Drained(_, _, _)
Drained(s, tp, n) ==
    IF n = 0 \/ tp = <<>> THEN s
    ELSE Drained(poll_iter(s, Head(tp), 1), Tail(tp), n - 1)

(* No debug, step or quit event is still to come, and after the drain of  *)
(* one of the coming ticks a mapped key is down                           *)
KeyArrives ==
    /\ \A i \in 1..Len(tape) : \A k \in 1..Len(tape[i]) : ~Control(tape[i][k])
    /\ \E n \in 0..Len(tape) :
        (n > 0 \/ tape = <<>>) /\ AnyKey(Drained(cpu, tape, n))

(* The wait at p is over: the LD Vx,K fetched at p left PC at p+2 and in  *)
(* Vx the index of a key that is down                                     *)
KeyTaken(p) ==
    /\ last.ran /\ last.kind = "LdVxK" /\ last.p = p /\ Ok(cpu)
    /\ cpu.r_pc = p + 2
    /\ LET v == cpu.r_vx[(last.raw \div 256) % 16] IN v \in 0..15 /\ cpu.keys[v]

KeyWaitAddrs == {PROGRAM_START + 4}

(* C28: when the Cpu runs freely with PC at an LD Vx,K and a key-down for *)
(* a mapped key is delivered and still down at a later tick, then         *)
(* eventually PC is past the instruction with Vx the index of a key that  *)
(* is down; and until then every tick completes: it drains its events,    *)
(* steps DT down and leaves PC at the instruction again.                  *)
C28_KeyWaitLiveness ==
    /\ \A p \in KeyWaitAddrs :
            (AtKeyWait /\ cpu.r_pc = p /\ KeyArrives) ~> KeyTaken(p)
    /\ [][(AtKeyWait /\ ~AnyKey(Drained(cpu, tape, 1))) =>
            /\ Ok(cpu') /\ cpu'.r_pc = cpu.r_pc
            /\ tape' = (IF tape = <<>> THEN <<>> ELSE Tail(tape))
            /\ cpu'.keys = Drained(cpu, tape, 1).keys
            /\ cpu'.r_dt = (IF cpu.r_dt = 0 THEN 0 ELSE cpu.r_dt - 1)]_vars

C28_KeyWaitLiveness_Witness ==
    /\ KeyTaken(516) /\ last2.ran /\ last2.kind = "LdVxK" /\ pre.r_pc = 516
    /\ pre2.r_dt = 3 /\ pre.r_dt = 2 /\ cpu.r_dt = 1
    /\ cpu.r_vx[1] = 15


(* C29: while the Cpu lives SP is in 0..15; a RET executed with no CALL   *)
(* outstanding (SP = 0) and a CALL executed with sixteen outstanding end  *)
(* the run in a fatal halt, in either build, and the RET neither wraps SP *)
(* nor loads PC from a stack entry that was never pushed.                 *)
C29_StackPointerRange ==
    /\ Ok(cpu) => cpu.r_sp \in 0..15
    /\ (last.ran /\ last.kind = "Ret" /\ pre.r_sp = 0) =>
            (~Ok(cpu) /\ cpu.r_sp = 0 /\ cpu.r_pc = last.p + 2)
    /\ (last.ran /\ last.kind = "Call" /\ last.depth = 16) =>
            (~Ok(cpu) /\ cpu.r_sp \in 0..15)


(* C30: every access stays inside 0x000..0xFFF: a fetch with PC+1 > 0xFFF, *)
(* a DRW with I+n > 4096, an LD B,Vx with I+2 > 0xFFF and an LD [I],Vx or  *)
(* LD Vx,[I] whose V0..Vx reach past 0xFFF all end in the same fatal halt, *)
(* with nothing wrapped to low addresses, and a tick of ADD I,Vx that does *)
(* not halt leaves I = I + Vx, never the sum cut to 16 bits.               *)
C30_MemoryBounds ==
    LET x == (last.raw \div 256) % 16
        n == last.raw % 16
    IN
    /\ DOMAIN cpu.mem = 0..4095
    /\ (last.ran /\ last.p + 1 > 4095) =>
            (cpu.status = IndexPanic /\ cpu.mem = pre.mem)
    /\ (last.ran /\ last.kind = "Drw" /\ pre.r_i + n > 4096) =>
            (cpu.status = IndexPanic /\ cpu.pixels = pre.pixels)
    /\ (last.ran /\ last.kind = "LdBCD" /\ pre.r_i + 2 > 4095) =>
            (cpu.status = IndexPanic /\ cpu.mem = pre.mem)
    /\ (last.ran /\ last.kind \in {"SaveRegs", "RestoreRegs"}
            /\ pre.r_i + x > 4095) =>
            (cpu.status = IndexPanic
                /\ \A a \in 0..(pre.r_i - 1) : cpu.mem[a] = pre.mem[a])
    /\ (last.ran /\ last.kind = "AddI" /\ Ok(cpu)) =>
            cpu.r_i = pre.r_i + pre.r_vx[x]


(* C31: two copies of the machine built from the same ROM and fed the same *)
(* events and the same random bytes are in identical states after every   *)
(* tick: registers, PC, SP, stack, timers, memory, framebuffer, keys and   *)
(* scheduler flags.  A tick can only part two identical copies when it is *)
(* a RND on which they drew different bytes, and RND Vx,kk leaves in Vx no *)
(* bit outside kk.                                                         *)
RndLeft == cpu.r_vx[FieldX(last.raw)]

=============================================================================
